---------------------------- MODULE Spec2Model ----------------------------
(***************************************************************************)
(* Scheduling and availability engine of the clinic backend:               *)
(* ScheduleService (schedule.service.js), the Appointment model and the    *)
(* AppointmentController, over an appointment store and the process-wide   *)
(* CacheService.                                                           *)
(*                                                                         *)
(* A wall-clock time "HH:MM" is the pair <<HH, MM>>; the order of the      *)
(* zero-padded strings is the lexicographic order of the pairs.  A         *)
(* calendar date is a day number.  An appointment id is its position in    *)
(* the store (rows are never deleted).                                     *)
(***************************************************************************)
EXTENDS Integers, Sequences, FiniteSets, TLC

VARIABLES
  appointments,   \* the Appointment table: sequence of rows, id = index
  cache,          \* CacheService.cache: key -> entry
  today,          \* the current calendar day (new Date())
  last,           \* the call just made and its outcome
  calls,          \* in-flight asynchronous scheduleAppointment calls
  settings        \* the static fields BUSINESS_HOURS and APPOINTMENT_DURATION

vars == <<appointments, cache, today, last, calls, settings>>

(***************************************************************************)
(* Bounds of the model                                                     *)
(***************************************************************************)
MaxAppts == 2
MaxCacheAppts == 2
MaxSurfaceAppts == 2
MaxDay == 2
MaxConAppts == 2

NoId == 0
NoReason == "null"
NoStatus == "null"

Doctors == {"D1", "D2"}
UnknownDoctor == "D9"
Patients == {"P1"}
\* data.patientId of a rescheduleAppointment call: absent, or another patient
NoPatient == "none"
DataPatients == {NoPatient, "P2"}
Branches == {"B1"}
Dates == {1, 2}
StartTimes == {<<9, 0>>, <<10, 0>>, <<10, 30>>}
EndTimes == {<<10, 0>>, <<12, 0>>}
Reasons == {"r1", "r2"}

UpdateReasons == {NoReason, "r2"}
Procs == {"p1", "p2"}

\* the calls each specification makes draw their inputs from these
ServiceCalendars == {<<"D1", 1>>, <<"D2", 2>>}
ServiceReasons == {"r1"}
CacheCalendars == {<<"D1", 1>>, <<"D2", 2>>}
CacheTimes == {<<10, 0>>}
CacheDates == {1}
CacheReasons == {"r1"}
SurfaceCalendars == {<<"D1", 2>>}
RaceCalendars == {<<"D1", 1>>, <<"D2", 1>>}
ConCalendars == {<<"D1", 1>>, <<"D2", 1>>}
ConTimes == {<<10, 0>>}
ConReasons == {"r1"}
\* the store operation that rejects during a call
NoFailure == {"none"}
StoreFailures == {"none", "findByPk", "findOne", "create", "update"}
SlotStarts == {<<9, 0>>, <<9, 30>>, <<16, 0>>}
SlotEnds == {<<10, 0>>, <<12, 30>>, <<17, 0>>}
SlotDurations == {15, 20, 30, 45, 60, 90, 120, 480, 600}

(***************************************************************************)
(* Program constants                                                       *)
(***************************************************************************)
BUSINESS_HOURS == [start |-> <<9, 0>>, end |-> <<17, 0>>]
APPOINTMENT_DURATION == 60

\* DataTypes.ENUM of Appointment.status
StatusEnum == {"scheduled", "confirmed", "completed", "cancelled"}

NoAppointment ==
  [patientId |-> "none", doctorId |-> "none", date |-> 0,
   startTime |-> <<0, 0>>, endTime |-> <<0, 0>>,
   status |-> "none", cancellationReason |-> NoReason]

\* User.findAll({ where: { role: 'doctor', branchId } })
DoctorsOfBranch(branchId) == IF branchId = "B1" THEN <<"D1", "D2">> ELSE <<>>

(***************************************************************************)
(* Times                                                                   *)
(***************************************************************************)
TimeLT(a, b) == a[1] < b[1] \/ (a[1] = b[1] /\ a[2] < b[2])
TimeLE(a, b) == a = b \/ TimeLT(a, b)
\* SQL: x BETWEEN lo AND hi (both ends inclusive)
Between(x, lo, hi) == TimeLE(lo, x) /\ TimeLE(x, hi)

calculateEndTime(startTime) ==
  LET hours == startTime[1]
      minutes == startTime[2]
      totalMinutes == hours * 60 + minutes + settings.APPOINTMENT_DURATION
      endHours == totalMinutes \div 60
      endMinutes == totalMinutes % 60
  IN <<endHours, endMinutes>>

RECURSIVE MinuteLoop(_, _)
MinuteLoop(hour, minute) ==
  IF minute < 60
  THEN <<<<hour, minute>>>>
         \o MinuteLoop(hour, minute + settings.APPOINTMENT_DURATION)
  ELSE <<>>

RECURSIVE HourLoop(_, _)
HourLoop(hour, endHour) ==
  IF hour < endHour
  THEN MinuteLoop(hour, 0) \o HourLoop(hour + 1, endHour)
  ELSE <<>>

generateTimeSlots ==
  LET startHour == settings.BUSINESS_HOURS.start[1]
      endHour == settings.BUSINESS_HOURS.end[1]
  IN HourLoop(startHour, endHour)

\* UtilService.getTimeSlots: the while loop from currentTime
RECURSIVE WhileLoop(_, _, _)
WhileLoop(currentTime, endTimeMinutes, intervalMinutes) ==
  IF currentTime < endTimeMinutes
  THEN <<<<currentTime \div 60, currentTime % 60>>>>
         \o WhileLoop(currentTime + intervalMinutes, endTimeMinutes,
                      intervalMinutes)
  ELSE <<>>

getTimeSlots(startTime, endTime, intervalMinutes) ==
  LET currentTime == startTime[1] * 60 + startTime[2]
      endTimeMinutes == endTime[1] * 60 + endTime[2]
  IN WhileLoop(currentTime, endTimeMinutes, intervalMinutes)

(***************************************************************************)
(* Appointment model                                                       *)
(***************************************************************************)
\* validate: { timeOrder, futureDate }, run on every create and save
timeOrder(row) == TimeLT(row.startTime, row.endTime)
futureDate(row, now) == ~(row.date < now)
Validate(row, now) == timeOrder(row) /\ futureDate(row, now)

Ids(store) == 1..Len(store)
findByPk(store, id) == IF id \in Ids(store) THEN store[id] ELSE NoAppointment

(***************************************************************************)
(* CacheService                                                            *)
(***************************************************************************)
CacheKeys ==
  {<<"availability", d, x>> : d \in Doctors, x \in Dates}
    \cup {<<"branch", b, x>> : b \in Branches, x \in Dates}

Miss == [hit |-> FALSE, value |-> <<>>]
CacheGet(c, key) == c[key]
CacheSet(c, key, value) == [c EXCEPT ![key] = [hit |-> TRUE, value |-> value]]
CacheDelete(c, key) == [c EXCEPT ![key] = Miss]

\* clearAvailabilityCache that forgets to delete the entry
clearNothing(c, doctorId, date) == c

clearAvailabilityCache(c, doctorId, date) ==
  CacheDelete(c, <<"availability", doctorId, date>>)

(***************************************************************************)
(* Conflict detection                                                      *)
(***************************************************************************)
\* the where clause without the endTime alternative of Op.or
ConflictStartOnly(row, id, doctorId, date, startTime, endTime, excludeAppointmentId) ==
  /\ row.doctorId = doctorId
  /\ row.date = date
  /\ row.status \notin {"cancelled", "rejected"}
  /\ id # excludeAppointmentId
  /\ Between(row.startTime, startTime, endTime)

\* the where clause without the status filter
ConflictAnyStatus(row, id, doctorId, date, startTime, endTime, excludeAppointmentId) ==
  /\ row.doctorId = doctorId
  /\ row.date = date
  /\ id # excludeAppointmentId
  /\ \/ Between(row.startTime, startTime, endTime)
     \/ Between(row.endTime, startTime, endTime)

\* the where clause of checkAvailability's findOne
ConflictRow(row, id, doctorId, date, startTime, endTime, excludeAppointmentId) ==
  /\ row.doctorId = doctorId
  /\ row.date = date
  /\ row.status \notin {"cancelled", "rejected"}
  /\ id # excludeAppointmentId
  /\ \/ Between(row.startTime, startTime, endTime)
     \/ Between(row.endTime, startTime, endTime)

checkAvailability(store, doctorId, date, startTime, excludeAppointmentId) ==
  LET endTime == calculateEndTime(startTime)
  IN ~ \E id \in Ids(store) :
         ConflictRow(store[id], id, doctorId, date, startTime, endTime,
                     excludeAppointmentId)

\* the where clause of AppointmentController.create's findOne
ControllerConflict(store, doctorId, date, startTime, endTime) ==
  \E id \in Ids(store) :
    /\ store[id].doctorId = doctorId
    /\ store[id].date = date
    /\ \/ Between(store[id].startTime, startTime, endTime)
       \/ Between(store[id].endTime, startTime, endTime)
    /\ store[id].status \notin {"cancelled"}

(***************************************************************************)
(* Availability                                                            *)
(***************************************************************************)
\* the findAll without the status filter
BookedStartsAnyStatus(store, doctorId, date) ==
  {store[id].startTime : id \in
     {i \in Ids(store) : /\ store[i].doctorId = doctorId
                         /\ store[i].date = date}}

\* Appointment.findAll of getDoctorAvailability, as the set of start times
BookedStarts(store, doctorId, date) ==
  {store[id].startTime : id \in
     {i \in Ids(store) : /\ store[i].doctorId = doctorId
                         /\ store[i].date = date
                         /\ store[i].status \notin {"cancelled", "rejected"}}}

ComputeAvailability(store, doctorId, date) ==
  SelectSeq(generateTimeSlots,
            LAMBDA slot : slot \notin BookedStarts(store, doctorId, date))

\* getDoctorAvailability as a function of store and cache: the value
\* returned and the cache afterwards.  failing: the doctors for whom
\* Appointment.findAll rejects; the error is logged and thrown again
DoctorAvailability(store, c, doctorId, date, failing) ==
  LET cacheKey == <<"availability", doctorId, date>>
      cached == CacheGet(c, cacheKey)
  IN IF cached.hit
     THEN [value |-> cached.value, cache |-> c, hit |-> TRUE, error |-> FALSE]
     ELSE IF doctorId \in failing
     THEN [value |-> <<>>, cache |-> c, hit |-> FALSE, error |-> TRUE]
     ELSE LET availableSlots == ComputeAvailability(store, doctorId, date)
          IN [value |-> availableSlots,
              cache |-> CacheSet(c, cacheKey, availableSlots),
              hit |-> FALSE, error |-> FALSE]

\* Promise.all over doctors.map of getBranchAvailability: every doctor's
\* getDoctorAvailability is started and runs to its end; Promise.all rejects
\* when one of them rejects
RECURSIVE FanOut(_, _, _, _, _)
FanOut(store, c, doctors, date, failing) ==
  IF doctors = <<>>
  THEN [value |-> <<>>, cache |-> c, error |-> FALSE]
  ELSE LET one == DoctorAvailability(store, c, Head(doctors), date, failing)
           rest == FanOut(store, one.cache, Tail(doctors), date, failing)
       IN [value |-> <<[doctor |-> Head(doctors),
                        availableSlots |-> one.value]>> \o rest.value,
           cache |-> rest.cache,
           error |-> one.error \/ rest.error]

BranchAvailability(store, c, branchId, date, failing) ==
  LET cacheKey == <<"branch", branchId, date>>
      cached == CacheGet(c, cacheKey)
  IN IF cached.hit
     THEN [value |-> cached.value, cache |-> c, hit |-> TRUE, error |-> FALSE]
     ELSE LET availability == FanOut(store, c, DoctorsOfBranch(branchId), date,
                                     failing)
          IN IF availability.error
             THEN [value |-> <<>>, cache |-> availability.cache,
                   hit |-> FALSE, error |-> TRUE]
             ELSE [value |-> availability.value,
                   cache |-> CacheSet(availability.cache, cacheKey,
                                      availability.value),
                   hit |-> FALSE, error |-> FALSE]

(***************************************************************************)
(* The record of the call just made                                        *)
(***************************************************************************)
Call(op, id, doctorId, date, startTime, reason, result, pre, slots, branch) ==
  [op |-> op, id |-> id, doctorId |-> doctorId, date |-> date,
   startTime |-> startTime, reason |-> reason, result |-> result,
   pre |-> pre, slots |-> slots, branch |-> branch, ops |-> <<>>]

\* the same record with the store operations and sends the call attempted
CallWith(call, ops) == [call EXCEPT !.ops = ops]

NoCall == Call("none", NoId, "none", 0, <<0, 0>>, NoReason, "none",
               NoAppointment, <<>>, <<>>)

Idle == [pc |-> "idle", doctorId |-> "none", date |-> 0, startTime |-> <<0, 0>>,
         isAvailable |-> FALSE, result |-> "none", id |-> NoId,
         op |-> "none", reason |-> NoReason, instance |-> NoAppointment,
         slots |-> <<>>]

Init ==
  /\ appointments = <<>>
  /\ cache = [k \in CacheKeys |-> Miss]
  /\ today = 1
  /\ last = NoCall
  /\ calls = [p \in Procs |-> Idle]
  /\ settings = [BUSINESS_HOURS |-> BUSINESS_HOURS,
                 APPOINTMENT_DURATION |-> APPOINTMENT_DURATION]

(***************************************************************************)
(* ScheduleService, one call at a time                                     *)
(***************************************************************************)
\* scheduleAppointment that clears the cache entry before the create
scheduleClearsFirst(patientId, doctorId, date, startTime, failure) ==
  LET isAvailable == checkAvailability(appointments, doctorId, date, startTime, NoId)
      row == [patientId |-> patientId, doctorId |-> doctorId, date |-> date,
              startTime |-> startTime, endTime |-> calculateEndTime(startTime),
              status |-> "scheduled", cancellationReason |-> NoReason]
      result == IF failure = "findOne" THEN "StorageError"
                ELSE IF ~isAvailable THEN "SlotUnavailable"
                ELSE IF ~Validate(row, today) THEN "ValidationError"
                ELSE IF failure = "create" THEN "StorageError"
                ELSE "ok"
      ops == IF failure = "findOne" \/ ~isAvailable THEN <<"findOne">>
             ELSE <<"findOne", "create">>
  IN /\ appointments' = IF result = "ok" THEN Append(appointments, row)
                        ELSE appointments
     /\ cache' = IF Len(ops) = 2
                 THEN clearAvailabilityCache(cache, doctorId, date)
                 ELSE cache
     /\ last' = CallWith(Call("scheduleAppointment",
                              IF result = "ok" THEN Len(appointments) + 1
                              ELSE NoId,
                              doctorId, date, startTime, NoReason, result,
                              NoAppointment, <<>>, <<>>), ops)
     /\ UNCHANGED <<settings, today, calls>>

\* failure: the store operation that rejects during this call, or "none"
scheduleAppointment(patientId, doctorId, date, startTime, failure) ==
  LET isAvailable == checkAvailability(appointments, doctorId, date, startTime, NoId)
      row == [patientId |-> patientId, doctorId |-> doctorId, date |-> date,
              startTime |-> startTime, endTime |-> calculateEndTime(startTime),
              status |-> "scheduled", cancellationReason |-> NoReason]
      result == IF failure = "findOne" THEN "StorageError"
                ELSE IF ~isAvailable THEN "SlotUnavailable"
                ELSE IF ~Validate(row, today) THEN "ValidationError"
                ELSE IF failure = "create" THEN "StorageError"
                ELSE "ok"
      ops == IF failure = "findOne" \/ ~isAvailable THEN <<"findOne">>
             ELSE <<"findOne", "create">>
  IN /\ appointments' = IF result = "ok" THEN Append(appointments, row)
                        ELSE appointments
     /\ cache' = IF result = "ok"
                 THEN clearAvailabilityCache(cache, doctorId, date)
                 ELSE cache
     /\ last' = CallWith(Call("scheduleAppointment",
                              IF result = "ok" THEN Len(appointments) + 1
                              ELSE NoId,
                              doctorId, date, startTime, NoReason, result,
                              NoAppointment, <<>>, <<>>), ops)
     /\ UNCHANGED <<settings, today, calls>>

\* rescheduleAppointment that saves the update before it checks the slot
rescheduleUpdatesFirst(appointmentId, doctorId, date, startTime, patientId, failure) ==
  LET appointment == findByPk(appointments, appointmentId)
      found == appointmentId \in Ids(appointments)
      isAvailable == checkAvailability(appointments, doctorId, date, startTime,
                                       appointmentId)
      updated == [appointment EXCEPT !.patientId = IF patientId = NoPatient
                                                   THEN @ ELSE patientId,
                                     !.doctorId = doctorId, !.date = date,
                                     !.startTime = startTime,
                                     !.endTime = calculateEndTime(startTime),
                                     !.status = "rescheduled"]
      result == IF failure = "findByPk" THEN "StorageError"
                ELSE IF ~found THEN "NotFound"
                ELSE IF ~Validate(updated, today) THEN "ValidationError"
                ELSE IF failure = "update" THEN "StorageError"
                ELSE IF failure = "findOne" THEN "StorageError"
                ELSE IF ~isAvailable THEN "SlotUnavailable"
                ELSE "ok"
      saved == result \in {"ok", "SlotUnavailable"}
      ops == IF failure = "findByPk" \/ ~found THEN <<"findByPk">>
             ELSE IF ~Validate(updated, today) \/ failure = "update"
                  THEN <<"findByPk", "update">>
             ELSE <<"findByPk", "update", "findOne">>
  IN /\ appointments' = IF saved
                        THEN [appointments EXCEPT ![appointmentId] = updated]
                        ELSE appointments
     /\ cache' = IF result = "ok"
                 THEN clearAvailabilityCache(cache, doctorId, date)
                 ELSE cache
     /\ last' = CallWith(Call("rescheduleAppointment", appointmentId, doctorId,
                              date, startTime, NoReason, result, appointment,
                              <<>>, <<>>), ops)
     /\ UNCHANGED <<settings, today, calls>>

\* rescheduleAppointment that checks the slot before it looks the id up
rescheduleChecksFirst(appointmentId, doctorId, date, startTime, patientId, failure) ==
  LET appointment == findByPk(appointments, appointmentId)
      found == appointmentId \in Ids(appointments)
      isAvailable == checkAvailability(appointments, doctorId, date, startTime,
                                       appointmentId)
      updated == [appointment EXCEPT !.patientId = IF patientId = NoPatient
                                                   THEN @ ELSE patientId,
                                     !.doctorId = doctorId, !.date = date,
                                     !.startTime = startTime,
                                     !.endTime = calculateEndTime(startTime),
                                     !.status = "rescheduled"]
      result == IF failure = "findOne" THEN "StorageError"
                ELSE IF ~isAvailable THEN "SlotUnavailable"
                ELSE IF failure = "findByPk" THEN "StorageError"
                ELSE IF ~found THEN "NotFound"
                ELSE IF ~Validate(updated, today) THEN "ValidationError"
                ELSE IF failure = "update" THEN "StorageError"
                ELSE "ok"
      ops == IF failure = "findOne" \/ ~isAvailable THEN <<"findOne">>
             ELSE IF failure = "findByPk" \/ ~found
                  THEN <<"findOne", "findByPk">>
             ELSE <<"findOne", "findByPk", "update">>
  IN /\ appointments' = IF result = "ok"
                        THEN [appointments EXCEPT ![appointmentId] = updated]
                        ELSE appointments
     /\ cache' = IF result = "ok"
                 THEN clearAvailabilityCache(cache, doctorId, date)
                 ELSE cache
     /\ last' = CallWith(Call("rescheduleAppointment", appointmentId, doctorId,
                              date, startTime, NoReason, result, appointment,
                              <<>>, <<>>), ops)
     /\ UNCHANGED <<settings, today, calls>>

rescheduleAppointment(appointmentId, doctorId, date, startTime, patientId, failure) ==
  LET appointment == findByPk(appointments, appointmentId)
      found == appointmentId \in Ids(appointments)
      isAvailable == checkAvailability(appointments, doctorId, date, startTime,
                                       appointmentId)
      \* appointment.update({...data, endTime, status}) sets the values on the
      \* instance, then saves it; patientId is the patientId that data
      \* carries besides doctorId, date and startTime (NoPatient: it has none)
      updated == [appointment EXCEPT !.patientId = IF patientId = NoPatient
                                                   THEN @ ELSE patientId,
                                     !.doctorId = doctorId, !.date = date,
                                     !.startTime = startTime,
                                     !.endTime = calculateEndTime(startTime),
                                     !.status = "rescheduled"]
      result == IF failure = "findByPk" THEN "StorageError"
                ELSE IF ~found THEN "NotFound"
                ELSE IF failure = "findOne" THEN "StorageError"
                ELSE IF ~isAvailable THEN "SlotUnavailable"
                ELSE IF ~Validate(updated, today) THEN "ValidationError"
                ELSE IF failure = "update" THEN "StorageError"
                ELSE "ok"
      ops == IF failure = "findByPk" \/ ~found THEN <<"findByPk">>
             ELSE IF failure = "findOne" \/ ~isAvailable
                  THEN <<"findByPk", "findOne">>
             ELSE <<"findByPk", "findOne", "update">>
      cleared == clearAvailabilityCache(cache, doctorId, date)
  IN /\ appointments' = IF result = "ok"
                        THEN [appointments EXCEPT ![appointmentId] = updated]
                        ELSE appointments
     /\ cache' = IF result # "ok" THEN cache
                 ELSE IF updated.doctorId # doctorId
                      THEN clearAvailabilityCache(cleared, updated.doctorId,
                                                  updated.date)
                      ELSE cleared
     /\ last' = CallWith(Call("rescheduleAppointment", appointmentId, doctorId,
                              date, startTime, NoReason, result, appointment,
                              <<>>, <<>>), ops)
     /\ UNCHANGED <<settings, today, calls>>

cancelAppointment(appointmentId, reason, failure) ==
  LET appointment == findByPk(appointments, appointmentId)
      found == appointmentId \in Ids(appointments)
      updated == [appointment EXCEPT !.status = "cancelled",
                                     !.cancellationReason = reason]
      result == IF failure = "findByPk" THEN "StorageError"
                ELSE IF ~found THEN "NotFound"
                ELSE IF ~Validate(updated, today) THEN "ValidationError"
                ELSE IF failure = "update" THEN "StorageError"
                ELSE "ok"
      ops == IF failure = "findByPk" \/ ~found THEN <<"findByPk">>
             ELSE <<"findByPk", "update">>
  IN /\ appointments' = IF result = "ok"
                        THEN [appointments EXCEPT ![appointmentId] = updated]
                        ELSE appointments
     /\ cache' = IF result = "ok"
                 THEN clearAvailabilityCache(cache, updated.doctorId, updated.date)
                 ELSE cache
     /\ last' = CallWith(Call("cancelAppointment", appointmentId,
                              appointment.doctorId, appointment.date,
                              appointment.startTime, reason, result,
                              appointment, <<>>, <<>>), ops)
     /\ UNCHANGED <<settings, today, calls>>

getDoctorAvailability(doctorId, date, failing) ==
  LET r == DoctorAvailability(appointments, cache, doctorId, date, failing)
  IN /\ cache' = r.cache
     /\ last' = Call("getDoctorAvailability", NoId, doctorId, date, <<0, 0>>,
                     NoReason,
                     IF r.error THEN "StorageError"
                     ELSE IF r.hit THEN "hit" ELSE "miss",
                     NoAppointment, r.value, <<>>)
     /\ UNCHANGED <<settings, appointments, today, calls>>

getBranchAvailability(branchId, date, failing) ==
  LET r == BranchAvailability(appointments, cache, branchId, date, failing)
  IN /\ cache' = r.cache
     /\ last' = Call("getBranchAvailability", NoId, branchId, date, <<0, 0>>,
                     NoReason,
                     IF r.error THEN "StorageError"
                     ELSE IF r.hit THEN "hit" ELSE "miss",
                     NoAppointment, <<>>, r.value)
     /\ UNCHANGED <<settings, appointments, today, calls>>

(***************************************************************************)
(* AppointmentController                                                   *)
(***************************************************************************)
\* POST /api/appointments; notified: both confirmation sends resolved
create(patientId, doctorId, date, startTime, endTime, notified) ==
  LET row == [patientId |-> patientId, doctorId |-> doctorId, date |-> date,
              startTime |-> startTime, endTime |-> endTime,
              status |-> "scheduled", cancellationReason |-> NoReason]
      result == IF doctorId \notin Doctors THEN "DoctorNotFound"
                ELSE IF ControllerConflict(appointments, doctorId, date,
                                           startTime, endTime)
                     THEN "Conflict"
                ELSE IF ~Validate(row, today) THEN "ValidationError"
                ELSE IF ~notified THEN "NotifyError"
                ELSE "ok"
      created == result \in {"ok", "NotifyError"}
      ops == IF result = "DoctorNotFound" THEN <<"User.findOne">>
             ELSE IF result = "Conflict"
                  THEN <<"User.findOne", "Branch.findOne", "findOne">>
             ELSE IF result = "ValidationError"
                  THEN <<"User.findOne", "Branch.findOne", "findOne", "create">>
             ELSE <<"User.findOne", "Branch.findOne", "findOne", "create",
                    "sendAppointmentConfirmation", "sendSMSNotification">>
  IN /\ appointments' = IF created THEN Append(appointments, row)
                        ELSE appointments
     /\ last' = CallWith(Call("create",
                              IF created THEN Len(appointments) + 1 ELSE NoId,
                              doctorId, date, startTime, NoReason, result,
                              NoAppointment, <<>>, <<>>), ops)
     /\ UNCHANGED <<settings, cache, today, calls>>

\* Appointment.prototype.canBeCancelled; early: on the eve of the
\* appointment, whether its start is still 24 hours or more away
canBeCancelled(row, now, early) ==
  LET daysAway == row.date - now
      hoursDifferenceAtLeast24 == daysAway >= 2 \/ (daysAway = 1 /\ early)
  IN hoursDifferenceAtLeast24 /\ row.status = "scheduled"

\* PATCH /api/appointments/:id
update(appointmentId, status, cancellationReason, early) ==
  LET appointment == findByPk(appointments, appointmentId)
      found == appointmentId \in Ids(appointments)
      updated == [appointment EXCEPT
                    !.status = IF status # NoStatus THEN status
                               ELSE appointment.status,
                    !.cancellationReason =
                       IF cancellationReason # NoReason THEN cancellationReason
                       ELSE appointment.cancellationReason]
      result == IF ~found THEN "NotFound"
                ELSE IF status = "cancelled"
                        /\ ~canBeCancelled(appointment, today, early)
                     THEN "CannotCancel"
                ELSE IF ~Validate(updated, today) THEN "ValidationError"
                ELSE "ok"
  IN /\ appointments' = IF result = "ok"
                        THEN [appointments EXCEPT ![appointmentId] = updated]
                        ELSE appointments
     /\ last' = Call("update", appointmentId, appointment.doctorId,
                     appointment.date, appointment.startTime,
                     cancellationReason, result, appointment, <<>>, <<>>)
     /\ UNCHANGED <<settings, cache, today, calls>>

\* NodeCache drops an entry when its TTL has run out
CacheExpire(key) ==
  /\ cache[key].hit
  /\ cache' = CacheDelete(cache, key)
  /\ UNCHANGED <<settings, appointments, today, last, calls>>

\* midnight passes
NextDay ==
  /\ last = NoCall
  /\ today < MaxDay
  /\ today' = today + 1
  /\ UNCHANGED <<settings, appointments, cache, last, calls>>

\* the caller has taken the outcome of its call; the next call can be made
Respond ==
  /\ last # NoCall
  /\ last' = NoCall
  /\ UNCHANGED <<settings, appointments, cache, today, calls>>

Schedule(calendars, times, limit, failures) ==
  /\ last = NoCall
  /\ \E p \in Patients, c \in calendars, t \in times,
        failure \in failures \cap {"none", "findOne", "create"} :
       scheduleAppointment(p, c[1], c[2], t, failure)
  /\ Len(appointments') <= limit

Reschedule(calendars, times, patients, failures) ==
  /\ last = NoCall
  /\ \E id \in 1..(Len(appointments) + 1), c \in calendars, t \in times,
        p \in patients,
        failure \in failures \cap {"none", "findByPk", "findOne", "update"} :
       rescheduleAppointment(id, c[1], c[2], t, p, failure)

Cancel(reasons, failures) ==
  /\ last = NoCall
  /\ \E id \in 1..(Len(appointments) + 1), r \in reasons,
        failure \in failures \cap {"none", "findByPk", "update"} :
       cancelAppointment(id, r, failure)

GetDoctor(calendars) ==
  /\ last = NoCall
  /\ \E c \in calendars :
       \E failing \in {{}, {c[1]}} : getDoctorAvailability(c[1], c[2], failing)

GetBranch(dates) ==
  /\ last = NoCall
  /\ \E b \in Branches, x \in dates, failing \in SUBSET Doctors :
       getBranchAvailability(b, x, failing)

Expire ==
  /\ last = NoCall
  /\ \E k \in CacheKeys : CacheExpire(k)

ControllerCreate(calendars, times, limit) ==
  /\ last = NoCall
  /\ \E p \in Patients, c \in calendars, t \in times, e \in EndTimes,
        notified \in BOOLEAN :
       \E d \in {c[1], UnknownDoctor} : create(p, d, c[2], t, e, notified)
  /\ Len(appointments') <= limit

ControllerUpdate ==
  /\ last = NoCall
  /\ \E id \in 1..(Len(appointments) + 1), s \in StatusEnum \cup {NoStatus},
        r \in UpdateReasons, early \in BOOLEAN :
       update(id, s, r, early)

(***************************************************************************)
(* SpecService: the three ScheduleService writes, one call at a time,      *)
(* from the empty store, while days pass.                                  *)
(***************************************************************************)
ServiceSchedule == Schedule(ServiceCalendars, StartTimes, MaxAppts, NoFailure)
ServiceReschedule == Reschedule(ServiceCalendars, StartTimes, {NoPatient}, NoFailure)
ServiceCancel == Cancel(ServiceReasons, NoFailure)

NextService ==
  \/ ServiceSchedule
  \/ ServiceReschedule
  \/ ServiceCancel
  \/ NextDay
  \/ Respond

SpecService == Init /\ [][NextService]_vars

(***************************************************************************)
(* SpecData: the three ScheduleService writes, where the data object of a  *)
(* rescheduleAppointment call may carry a patientId besides doctorId, date *)
(* and startTime.                                                          *)
(***************************************************************************)
DataSchedule == Schedule(ServiceCalendars, StartTimes, MaxAppts, NoFailure)
DataReschedule == Reschedule(ServiceCalendars, StartTimes, DataPatients, NoFailure)
DataCancel == Cancel(ServiceReasons, NoFailure)

NextData ==
  \/ DataSchedule
  \/ DataReschedule
  \/ DataCancel
  \/ Respond

SpecData == Init /\ [][NextData]_vars

(***************************************************************************)
(* SpecCache: the writes together with the cached availability reads.      *)
(***************************************************************************)
CacheSchedule == Schedule(CacheCalendars, CacheTimes, MaxCacheAppts, StoreFailures)
CacheReschedule == Reschedule(CacheCalendars, CacheTimes, {NoPatient}, StoreFailures)
CacheCancel == Cancel(CacheReasons, StoreFailures)
CacheGetDoctor == GetDoctor(CacheCalendars)
CacheGetBranch == GetBranch(CacheDates)

NextCache ==
  \/ CacheSchedule
  \/ CacheReschedule
  \/ CacheCancel
  \/ CacheGetDoctor
  \/ CacheGetBranch
  \/ Expire
  \/ Respond

SpecCache == Init /\ [][NextCache]_vars

(***************************************************************************)
(* Spec: the whole booking surface, ScheduleService and                    *)
(* AppointmentController over the same store.                              *)
(***************************************************************************)
SurfaceSchedule == Schedule(SurfaceCalendars, StartTimes, MaxSurfaceAppts, NoFailure)
SurfaceReschedule == Reschedule(SurfaceCalendars, StartTimes, {NoPatient}, NoFailure)
SurfaceCancel == Cancel(Reasons, NoFailure)
SurfaceCreate == ControllerCreate(SurfaceCalendars, StartTimes, MaxSurfaceAppts)

Next ==
  \/ SurfaceSchedule
  \/ SurfaceReschedule
  \/ SurfaceCancel
  \/ SurfaceCreate
  \/ ControllerUpdate
  \/ NextDay
  \/ Respond

Spec == Init /\ [][Next]_vars

(***************************************************************************)
(* SpecRace: each process makes one scheduleAppointment call; the calls    *)
(* suspend at their awaits (the findOne of checkAvailability, the create)  *)
(* and the event loop resumes them in any order.                           *)
(***************************************************************************)
\* the call is made: it runs up to the await of findOne
RaceBegin(p) ==
  /\ calls[p].pc = "idle"
  /\ \E c \in RaceCalendars, t \in StartTimes :
       calls' = [calls EXCEPT ![p] = [Idle EXCEPT !.pc = "check",
                                                  !.doctorId = c[1],
                                                  !.date = c[2],
                                                  !.startTime = t]]
  /\ UNCHANGED <<settings, appointments, cache, today, last>>

\* findOne reads the table; the call throws or goes on to await create
RaceCheck(p) ==
  /\ calls[p].pc = "check"
  /\ LET isAvailable == checkAvailability(appointments, calls[p].doctorId,
                                          calls[p].date, calls[p].startTime,
                                          NoId)
     IN calls' = [calls EXCEPT
                    ![p].isAvailable = isAvailable,
                    ![p].pc = IF isAvailable THEN "create" ELSE "done",
                    ![p].result = IF isAvailable THEN "none"
                                  ELSE "SlotUnavailable"]
  /\ UNCHANGED <<settings, appointments, cache, today, last>>

\* Appointment.create validates the row and inserts it
RaceCreate(p) ==
  /\ calls[p].pc = "create"
  /\ LET row == [patientId |-> "P1", doctorId |-> calls[p].doctorId,
                 date |-> calls[p].date, startTime |-> calls[p].startTime,
                 endTime |-> calculateEndTime(calls[p].startTime),
                 status |-> "scheduled", cancellationReason |-> NoReason]
     IN IF Validate(row, today)
        THEN /\ appointments' = Append(appointments, row)
             /\ calls' = [calls EXCEPT ![p].pc = "clear",
                                       ![p].id = Len(appointments) + 1]
        ELSE /\ appointments' = appointments
             /\ calls' = [calls EXCEPT ![p].pc = "done",
                                       ![p].result = "ValidationError"]
  /\ UNCHANGED <<settings, cache, today, last>>

\* the call resumes after create: clears the cache entry and returns
RaceClear(p) ==
  /\ calls[p].pc = "clear"
  /\ cache' = clearAvailabilityCache(cache, calls[p].doctorId, calls[p].date)
  /\ calls' = [calls EXCEPT ![p].pc = "done", ![p].result = "ok"]
  /\ UNCHANGED <<settings, appointments, today, last>>

NextRace ==
  \/ \E p \in Procs : RaceBegin(p)
  \/ \E p \in Procs : RaceCheck(p)
  \/ \E p \in Procs : RaceCreate(p)
  \/ \E p \in Procs : RaceClear(p)

SpecRace == Init /\ [][NextRace]_vars

(***************************************************************************)
(* SpecConcurrent: the processes make ScheduleService calls one after      *)
(* another; a call suspends at each await (findByPk, findOne, create,      *)
(* update, findAll) and the event loop resumes the suspended calls in any  *)
(* order.  Each step below is one store operation together with the        *)
(* synchronous code that follows it up to the next await.                  *)
(***************************************************************************)
\* scheduleAppointment calls that have not created their row yet
Creating ==
  {q \in Procs : /\ calls[q].op = "scheduleAppointment"
                 /\ calls[q].pc \in {"check", "create"}}

\* scheduleAppointment is called: it runs up to the await of findOne
ConSchedule(p) ==
  /\ calls[p].pc = "idle"
  /\ Len(appointments) + Cardinality(Creating) < MaxConAppts
  /\ \E c \in ConCalendars, t \in ConTimes :
       calls' = [calls EXCEPT ![p] = [Idle EXCEPT !.op = "scheduleAppointment",
                                                  !.pc = "check",
                                                  !.doctorId = c[1],
                                                  !.date = c[2],
                                                  !.startTime = t]]
  /\ UNCHANGED <<settings, appointments, cache, today, last>>

\* rescheduleAppointment is called: it runs up to the await of findByPk
ConReschedule(p) ==
  /\ calls[p].pc = "idle"
  /\ \E id \in Ids(appointments), c \in ConCalendars, t \in ConTimes :
       calls' = [calls EXCEPT ![p] = [Idle EXCEPT !.op = "rescheduleAppointment",
                                                  !.pc = "load",
                                                  !.id = id,
                                                  !.doctorId = c[1],
                                                  !.date = c[2],
                                                  !.startTime = t]]
  /\ UNCHANGED <<settings, appointments, cache, today, last>>

\* cancelAppointment is called: it runs up to the await of findByPk
ConCancel(p) ==
  /\ calls[p].pc = "idle"
  /\ \E id \in Ids(appointments), r \in ConReasons :
       calls' = [calls EXCEPT ![p] = [Idle EXCEPT !.op = "cancelAppointment",
                                                  !.pc = "load",
                                                  !.id = id,
                                                  !.reason = r]]
  /\ UNCHANGED <<settings, appointments, cache, today, last>>

\* getDoctorAvailability is called: CacheService.get is synchronous; on a hit
\* the call returns, on a miss it runs up to the await of findAll
ConGetDoctor(p) ==
  /\ calls[p].pc = "idle"
  /\ \E c \in ConCalendars :
       LET cached == CacheGet(cache, <<"availability", c[1], c[2]>>)
       IN calls' = [calls EXCEPT ![p] =
                      [Idle EXCEPT !.op = "getDoctorAvailability",
                                   !.doctorId = c[1],
                                   !.date = c[2],
                                   !.pc = IF cached.hit THEN "done" ELSE "read",
                                   !.result = IF cached.hit THEN "hit" ELSE "none",
                                   !.slots = cached.value]]
  /\ UNCHANGED <<settings, appointments, cache, today, last>>

\* findByPk reads the row into the instance
ConLoad(p) ==
  /\ calls[p].pc = "load"
  /\ LET found == calls[p].id \in Ids(appointments)
     IN calls' = [calls EXCEPT
                    ![p].instance = findByPk(appointments, calls[p].id),
                    ![p].pc = IF ~found THEN "done"
                              ELSE IF calls[p].op = "rescheduleAppointment"
                                   THEN "check"
                              ELSE "save",
                    ![p].result = IF found THEN "none" ELSE "NotFound"]
  /\ UNCHANGED <<settings, appointments, cache, today, last>>

\* the findOne of checkAvailability reads the table
ConCheck(p) ==
  /\ calls[p].pc = "check"
  /\ LET isAvailable ==
           checkAvailability(appointments, calls[p].doctorId, calls[p].date,
                             calls[p].startTime,
                             IF calls[p].op = "rescheduleAppointment"
                             THEN calls[p].id ELSE NoId)
     IN calls' = [calls EXCEPT
                    ![p].isAvailable = isAvailable,
                    ![p].pc = IF ~isAvailable THEN "done"
                              ELSE IF calls[p].op = "scheduleAppointment"
                                   THEN "create"
                              ELSE "save",
                    ![p].result = IF isAvailable THEN "none"
                                  ELSE "SlotUnavailable"]
  /\ UNCHANGED <<settings, appointments, cache, today, last>>

\* Appointment.create validates the row and inserts it
ConCreate(p) ==
  /\ calls[p].pc = "create"
  /\ LET row == [patientId |-> "P1", doctorId |-> calls[p].doctorId,
                 date |-> calls[p].date, startTime |-> calls[p].startTime,
                 endTime |-> calculateEndTime(calls[p].startTime),
                 status |-> "scheduled", cancellationReason |-> NoReason]
     IN IF Validate(row, today)
        THEN /\ appointments' = Append(appointments, row)
             /\ calls' = [calls EXCEPT ![p].pc = "clear",
                                       ![p].id = Len(appointments) + 1]
        ELSE /\ appointments' = appointments
             /\ calls' = [calls EXCEPT ![p].pc = "done",
                                       ![p].result = "ValidationError"]
  /\ UNCHANGED <<settings, cache, today, last>>

\* the values passed to appointment.update
UpdateValues(call) ==
  IF call.op = "rescheduleAppointment"
  THEN [doctorId |-> call.doctorId, date |-> call.date,
        startTime |-> call.startTime,
        endTime |-> calculateEndTime(call.startTime),
        status |-> "rescheduled"]
  ELSE [status |-> "cancelled", cancellationReason |-> call.reason]

\* a record with the fields of values set to their values
SetValues(record, values) ==
  [f \in DOMAIN record |->
     IF f \in DOMAIN values THEN values[f] ELSE record[f]]

\* appointment.update: the values are set on the instance, the instance is
\* validated, and the UPDATE writes the fields passed onto the stored row
ConSave(p) ==
  /\ calls[p].pc = "save"
  /\ LET values == UpdateValues(calls[p])
         instance == SetValues(calls[p].instance, values)
     IN IF Validate(instance, today)
        THEN /\ appointments' =
                  [appointments EXCEPT
                     ![calls[p].id] = SetValues(appointments[calls[p].id],
                                                values)]
             /\ calls' = [calls EXCEPT ![p].pc = "clear"]
        ELSE /\ appointments' = appointments
             /\ calls' = [calls EXCEPT ![p].pc = "done",
                                       ![p].result = "ValidationError"]
  /\ UNCHANGED <<settings, cache, today, last>>

\* the call resumes after its write: clearAvailabilityCache, then it returns
\* (calls[p].instance is the row as loaded; in rescheduleAppointment the
\* updated instance carries the new doctorId, so the second clear is never
\* made)
ConClear(p) ==
  /\ calls[p].pc = "clear"
  /\ LET call == calls[p]
         appointment == IF call.op = "scheduleAppointment" THEN call.instance
                        ELSE SetValues(call.instance, UpdateValues(call))
         key == IF call.op = "cancelAppointment"
                THEN <<appointment.doctorId, appointment.date>>
                ELSE <<call.doctorId, call.date>>
         cleared == clearAvailabilityCache(cache, key[1], key[2])
     IN cache' = IF /\ call.op = "rescheduleAppointment"
                    /\ appointment.doctorId # call.doctorId
                 THEN clearAvailabilityCache(cleared, appointment.doctorId,
                                             appointment.date)
                 ELSE cleared
  /\ calls' = [calls EXCEPT ![p].pc = "done", ![p].result = "ok"]
  /\ UNCHANGED <<settings, appointments, today, last>>

\* the findAll of getDoctorAvailability reads the table
ConRead(p) ==
  /\ calls[p].pc = "read"
  /\ calls' = [calls EXCEPT
                 ![p].pc = "fill",
                 ![p].slots = ComputeAvailability(appointments,
                                                  calls[p].doctorId,
                                                  calls[p].date)]
  /\ UNCHANGED <<settings, appointments, cache, today, last>>

\* the call resumes after findAll: CacheService.set, then it returns
ConFill(p) ==
  /\ calls[p].pc = "fill"
  /\ cache' = CacheSet(cache, <<"availability", calls[p].doctorId,
                                calls[p].date>>, calls[p].slots)
  /\ calls' = [calls EXCEPT ![p].pc = "done", ![p].result = "miss"]
  /\ UNCHANGED <<settings, appointments, today, last>>

\* the caller has taken the outcome; the process can make its next call
ConReturn(p) ==
  /\ calls[p].pc = "done"
  /\ calls' = [calls EXCEPT ![p] = Idle]
  /\ UNCHANGED <<settings, appointments, cache, today, last>>

NextConcurrent ==
  \/ \E p \in Procs : ConSchedule(p)
  \/ \E p \in Procs : ConReschedule(p)
  \/ \E p \in Procs : ConCancel(p)
  \/ \E p \in Procs : ConGetDoctor(p)
  \/ \E p \in Procs : ConLoad(p)
  \/ \E p \in Procs : ConCheck(p)
  \/ \E p \in Procs : ConCreate(p)
  \/ \E p \in Procs : ConSave(p)
  \/ \E p \in Procs : ConClear(p)
  \/ \E p \in Procs : ConRead(p)
  \/ \E p \in Procs : ConFill(p)
  \/ \E p \in Procs : ConReturn(p)

SpecConcurrent == Init /\ [][NextConcurrent]_vars

(***************************************************************************)
(* SpecSlots: generateTimeSlots under every setting of the static fields   *)
(* BUSINESS_HOURS and APPOINTMENT_DURATION drawn from SlotSettings.         *)
(***************************************************************************)
SlotSettings ==
  {[BUSINESS_HOURS |-> [start |-> s, end |-> e], APPOINTMENT_DURATION |-> d] :
     s \in SlotStarts, e \in SlotEnds, d \in SlotDurations}

InitSlots ==
  /\ appointments = <<>>
  /\ cache = [k \in CacheKeys |-> Miss]
  /\ today = 1
  /\ last = NoCall
  /\ calls = [p \in Procs |-> Idle]
  /\ settings \in SlotSettings
  /\ TimeLT(settings.BUSINESS_HOURS.start, settings.BUSINESS_HOURS.end)

GenerateSlots ==
  /\ last = NoCall
  /\ last' = Call("generateTimeSlots", NoId, "none", 0, <<0, 0>>, NoReason,
                  "ok", NoAppointment, generateTimeSlots, <<>>)
  /\ UNCHANGED <<settings, appointments, cache, today, calls>>

NextSlots ==
  \/ GenerateSlots
  \/ Respond

SpecSlots == InitSlots /\ [][NextSlots]_vars

(***************************************************************************)
(* SpecEndTime: calculateEndTime applied to the start times of a day, under *)
(* the static fields as declared (APPOINTMENT_DURATION = 60).               *)
(***************************************************************************)
ClockHours == 0..23
ClockMinutes == {0, 15, 30, 45, 59}

CalculateEndTime ==
  /\ last = NoCall
  /\ \E h \in ClockHours, m \in ClockMinutes :
       last' = Call("calculateEndTime", NoId, "none", 0, <<h, m>>, NoReason,
                    "ok", NoAppointment, <<calculateEndTime(<<h, m>>)>>, <<>>)
  /\ UNCHANGED <<settings, appointments, cache, today, calls>>

NextEndTime ==
  \/ CalculateEndTime
  \/ Respond

SpecEndTime == Init /\ [][NextEndTime]_vars

(***************************************************************************)
(* Properties                                                              *)
(***************************************************************************)
\* half-open intervals [s1, e1) and [s2, e2) overlap
Overlaps(s1, e1, s2, e2) == TimeLT(s1, e2) /\ TimeLT(s2, e1)
\* they only touch at an endpoint
Touches(s1, e1, s2, e2) == e1 = s2 \/ s1 = e2
Elems(seq) == {seq[i] : i \in 1..Len(seq)}
SameCalendar(a, b) == a.doctorId = b.doctorId /\ a.date = b.date
NotCancelled(row) == row.status # "cancelled"

\* C1: for every doctor and date the intervals of the appointments that are
\* not cancelled are pairwise non-overlapping, after any sequence of
\* scheduleAppointment, rescheduleAppointment and cancelAppointment calls
\* made one at a time from the empty store.
C1_NonOverlap ==
  \A i \in Ids(appointments), j \in Ids(appointments) :
    (/\ i # j
     /\ SameCalendar(appointments[i], appointments[j])
     /\ NotCancelled(appointments[i])
     /\ NotCancelled(appointments[j]))
    => ~Overlaps(appointments[i].startTime, appointments[i].endTime,
                 appointments[j].startTime, appointments[j].endTime)

\* a reschedule has just succeeded next to a second live appointment of the
\* same doctor and date, and an appointment was cancelled earlier
C1_Witness ==
  /\ last.op = "rescheduleAppointment"
  /\ last.result = "ok"
  /\ last.pre.status = "cancelled"
  /\ \E j \in Ids(appointments) :
       /\ j # last.id
       /\ SameCalendar(appointments[j], appointments[last.id])
       /\ NotCancelled(appointments[j])

\* C2: two concurrent scheduleAppointment calls for the same doctor and date
\* and overlapping times: exactly one succeeds and the other fails with the
\* slot-unavailable error.
C2_ExactlyOneWins ==
  \A p \in Procs, q \in Procs :
    (/\ p # q
     /\ calls[p].pc = "done"
     /\ calls[q].pc = "done"
     /\ calls[p].doctorId = calls[q].doctorId
     /\ calls[p].date = calls[q].date
     /\ Overlaps(calls[p].startTime, calculateEndTime(calls[p].startTime),
                 calls[q].startTime, calculateEndTime(calls[q].startTime)))
    => {calls[p].result, calls[q].result} = {"ok", "SlotUnavailable"}

\* C3: checkAvailability returns false whenever the proposed interval
\* overlaps a stored appointment of that doctor and date that is not
\* cancelled and is not the excluded one.
C3_NoMissedConflict ==
  \A id \in Ids(appointments), t \in StartTimes,
     exclude \in Ids(appointments) \cup {NoId} :
    (/\ exclude # id
     /\ NotCancelled(appointments[id])
     /\ Overlaps(t, calculateEndTime(t),
                 appointments[id].startTime, appointments[id].endTime))
    => ~checkAvailability(appointments, appointments[id].doctorId,
                          appointments[id].date, t, exclude)

\* the live appointments of a calendar other than one id
Others(id, doctorId, date) ==
  {j \in Ids(appointments) \ {id} :
     /\ appointments[j].doctorId = doctorId
     /\ appointments[j].date = date
     /\ NotCancelled(appointments[j])}

\* C4: a scheduleAppointment whose interval touches a live appointment of
\* the doctor and date at an endpoint and overlaps none is accepted.
C4_AdjacentAccepted ==
  (/\ last.op = "scheduleAppointment"
   /\ ~(last.date < today)
   /\ \E j \in Others(last.id, last.doctorId, last.date) :
        Touches(last.startTime, calculateEndTime(last.startTime),
                appointments[j].startTime, appointments[j].endTime)
   /\ \A j \in Others(last.id, last.doctorId, last.date) :
        ~Overlaps(last.startTime, calculateEndTime(last.startTime),
                  appointments[j].startTime, appointments[j].endTime))
  => last.result = "ok"

\* C5: once scheduleAppointment(D, X, T) has succeeded and the appointment
\* has been neither cancelled nor rescheduled, no getDoctorAvailability(D, X)
\* returns a list containing T.
C5_BookedSlotNotListed ==
  last.op = "getDoctorAvailability"
  => \A id \in Ids(appointments) :
       (/\ appointments[id].doctorId = last.doctorId
        /\ appointments[id].date = last.date
        /\ appointments[id].status = "scheduled")
       => appointments[id].startTime \notin Elems(last.slots)

\* getDoctorAvailability(D, X) has just left out the start time T of a
\* booking, while the branch entry cached before the booking still lists T
\* for D: the availability of (D, X) had been read and cached with T in it
C5_Witness ==
  /\ last.op = "getDoctorAvailability"
  /\ \E id \in Ids(appointments), b \in Branches :
       /\ appointments[id].doctorId = last.doctorId
       /\ appointments[id].date = last.date
       /\ appointments[id].status = "scheduled"
       /\ appointments[id].startTime \in Elems(generateTimeSlots)
       /\ appointments[id].startTime \notin Elems(last.slots)
       /\ cache[<<"branch", b, last.date>>].hit
       /\ \E e \in Elems(cache[<<"branch", b, last.date>>].value) :
            /\ e.doctor = last.doctorId
            /\ appointments[id].startTime \in Elems(e.availableSlots)

\* C6: after a rescheduleAppointment that moved an appointment to another
\* (doctor, date) pair, neither the old pair's nor the new pair's
\* doctor-availability entry is in the cache.
C6_BothEntriesInvalidated ==
  (/\ last.op = "rescheduleAppointment"
   /\ last.result = "ok"
   /\ <<last.pre.doctorId, last.pre.date>> # <<last.doctorId, last.date>>)
  => /\ ~cache[<<"availability", last.pre.doctorId, last.pre.date>>].hit
     /\ ~cache[<<"availability", last.doctorId, last.date>>].hit

\* C7: getBranchAvailability(B, X) returns for each doctor of B the slot list
\* a fresh computation over the store gives.
C7_BranchFresh ==
  last.op = "getBranchAvailability"
  => \A e \in Elems(last.branch) :
       e.availableSlots = ComputeAvailability(appointments, e.doctor, last.date)

\* C8: an appointment whose status is 'cancelled' or 'completed' keeps that
\* status in every later step.
C8_TerminalStates ==
  [][\A id \in Ids(appointments) :
       appointments[id].status \in {"cancelled", "completed"}
       => appointments'[id].status = appointments[id].status]_vars

\* C9: cancelAppointment on an appointment that is already cancelled fails
\* or leaves every field of the record as it was.
C9_RecancelNoOp ==
  (/\ last.op = "cancelAppointment"
   /\ last.pre.status = "cancelled"
   /\ last.result = "ok")
  => appointments[last.id] = last.pre

\* C10: a rescheduleAppointment of A on its own doctor and date to an
\* interval that overlaps A's current interval and no other live
\* appointment succeeds.
C10_RescheduleOverItself ==
  (/\ last.op = "rescheduleAppointment"
   /\ last.pre # NoAppointment
   /\ ~(last.date < today)
   /\ last.doctorId = last.pre.doctorId
   /\ last.date = last.pre.date
   /\ Overlaps(last.startTime, calculateEndTime(last.startTime),
               last.pre.startTime, last.pre.endTime)
   /\ \A j \in Others(last.id, last.doctorId, last.date) :
        ~Overlaps(last.startTime, calculateEndTime(last.startTime),
                  appointments[j].startTime, appointments[j].endTime))
  => last.result = "ok"

\* C11: a rescheduleAppointment that fails because the requested interval
\* conflicts with another appointment leaves the target appointment, every
\* other appointment and the cache exactly as they were before the call.
C11_FailedRescheduleChangesNothing ==
  [][(/\ last = NoCall
      /\ last'.op = "rescheduleAppointment"
      /\ last'.result = "SlotUnavailable")
     => /\ appointments' = appointments
        /\ cache' = cache]_vars

\* a reschedule to another (doctor, date) pair has just failed on a conflict
\* while the availability of both pairs was cached
C11_Witness ==
  /\ last.op = "rescheduleAppointment"
  /\ last.result = "SlotUnavailable"
  /\ <<last.pre.doctorId, last.pre.date>> # <<last.doctorId, last.date>>
  /\ cache[<<"availability", last.pre.doctorId, last.pre.date>>].hit
  /\ cache[<<"availability", last.doctorId, last.date>>].hit
  /\ appointments[last.id] = last.pre

\* C12: rescheduleAppointment and cancelAppointment called with an id that
\* is not in the store (the lookup itself working) fail with the not-found
\* error, not the slot-unavailable error, and leave the store and the cache
\* unchanged.
C12_UnknownIdNotFound ==
  [][(/\ last = NoCall
      /\ last'.op \in {"rescheduleAppointment", "cancelAppointment"}
      /\ last'.id \notin Ids(appointments)
      /\ last'.result # "StorageError")
     => /\ last'.result = "NotFound"
        /\ appointments' = appointments
        /\ cache' = cache]_vars

\* a reschedule with an unknown id has just failed with NotFound although
\* the requested slot is taken, while the pair's availability was cached
C12_Witness ==
  /\ last.op = "rescheduleAppointment"
  /\ last.id \notin Ids(appointments)
  /\ last.result = "NotFound"
  /\ ~checkAvailability(appointments, last.doctorId, last.date,
                        last.startTime, NoId)
  /\ cache[<<"availability", last.doctorId, last.date>>].hit

\* closed intervals [s1, e1] and [s2, e2] have a point in common
Meets(s1, e1, s2, e2) == TimeLE(s1, e2) /\ TimeLE(s2, e1)

\* C13: a cancelled appointment never makes a later scheduleAppointment or
\* rescheduleAppointment fail: a call that fails with slot-unavailable has a
\* live appointment of the doctor and date, other than its target, on its
\* interval; and with a live booking at 10:00 a booking at 10:30 fails.
C13_CancelledNeverBlocks ==
  /\ (/\ last.op \in {"scheduleAppointment", "rescheduleAppointment"}
      /\ last.result = "SlotUnavailable")
     => \E j \in Others(last.id, last.doctorId, last.date) :
          Meets(last.startTime, calculateEndTime(last.startTime),
                appointments[j].startTime, appointments[j].endTime)
  /\ (/\ last.op = "scheduleAppointment"
      /\ last.startTime = <<10, 30>>
      /\ \E j \in Others(last.id, last.doctorId, last.date) :
           appointments[j].startTime = <<10, 0>>)
     => last.result = "SlotUnavailable"

\* the booking at 10:30 has just succeeded over the cancelled 10:00
\* appointment of the same doctor and date
C13_Witness ==
  /\ last.op = "scheduleAppointment"
  /\ last.startTime = <<10, 30>>
  /\ last.result = "ok"
  /\ \E j \in Ids(appointments) :
       /\ appointments[j].doctorId = last.doctorId
       /\ appointments[j].date = last.date
       /\ appointments[j].startTime = <<10, 0>>
       /\ appointments[j].status = "cancelled"

\* C14: cancelAppointment on an appointment that exists in the store
\* succeeds however its date compares with the current day.
C14_CancelUnconditional ==
  (/\ last.op = "cancelAppointment"
   /\ last.pre # NoAppointment)
  => /\ last.result = "ok"
     /\ appointments[last.id].status = "cancelled"
     /\ appointments[last.id].cancellationReason = last.reason

Minutes(t) == t[1] * 60 + t[2]

\* start, start + d, start + 2d, ... strictly before end
RECURSIVE LinearWalk(_, _, _)
LinearWalk(from, end, d) ==
  IF from < end
  THEN <<<<from \div 60, from % 60>>>> \o LinearWalk(from + d, end, d)
  ELSE <<>>

\* C15: for business hours start < end and a slot duration d > 0,
\* generateTimeSlots returns the ascending sequence start, start + d,
\* start + 2d, ... of the times strictly before end, the sequence
\* UtilService.getTimeSlots(start, end, d) returns.
C15_LinearWalk ==
  (/\ last.op = "generateTimeSlots"
   /\ TimeLT(settings.BUSINESS_HOURS.start, settings.BUSINESS_HOURS.end)
   /\ settings.APPOINTMENT_DURATION > 0)
  => /\ last.slots = LinearWalk(Minutes(settings.BUSINESS_HOURS.start),
                                Minutes(settings.BUSINESS_HOURS.end),
                                settings.APPOINTMENT_DURATION)
     /\ last.slots = getTimeSlots(settings.BUSINESS_HOURS.start,
                                  settings.BUSINESS_HOURS.end,
                                  settings.APPOINTMENT_DURATION)

\* C16: when the slot duration is at least the length of the business-hours
\* window, generateTimeSlots returns the empty sequence.
C16_EmptyWhenDurationCoversWindow ==
  (/\ last.op = "generateTimeSlots"
   /\ settings.APPOINTMENT_DURATION >=
        Minutes(settings.BUSINESS_HOURS.end)
          - Minutes(settings.BUSINESS_HOURS.start))
  => last.slots = <<>>

\* C17: on a cache miss getDoctorAvailability(D, X) returns, in ascending
\* order, exactly the generated slots that are not the startTime of a stored
\* appointment of D on X that is not cancelled, and stores that list in the
\* cache under (D, X).
C17_MissComputesAndCaches ==
  (/\ last.op = "getDoctorAvailability"
   /\ last.result = "miss")
  => /\ Elems(last.slots) =
          Elems(generateTimeSlots)
            \ {appointments[j].startTime :
                 j \in Others(NoId, last.doctorId, last.date)}
     /\ \A i \in 1..Len(last.slots), j \in 1..Len(last.slots) :
          i < j => TimeLT(last.slots[i], last.slots[j])
     /\ cache[<<"availability", last.doctorId, last.date>>] =
          [hit |-> TRUE, value |-> last.slots]

\* a miss has just left out the start time of a live booking of the doctor
\* and date, and the other generated slots are listed and cached
C17_Witness ==
  /\ last.op = "getDoctorAvailability"
  /\ last.result = "miss"
  /\ \E j \in Others(NoId, last.doctorId, last.date) :
       /\ appointments[j].startTime \in Elems(generateTimeSlots)
       /\ appointments[j].startTime \notin Elems(last.slots)
  /\ Len(last.slots) = Len(generateTimeSlots) - 1
  /\ cache[<<"availability", last.doctorId, last.date>>].hit

\* C18: getBranchAvailability does not fail when the availability of one
\* doctor of the branch cannot be computed: it returns an entry for every
\* doctor of the branch.
C18_FanOutIsolatesFailures ==
  last.op = "getBranchAvailability"
  => /\ last.result # "StorageError"
     /\ {e.doctor : e \in Elems(last.branch)} =
          Elems(DoctorsOfBranch(last.doctorId))

\* what a ScheduleService whose cache always misses returns
AlwaysMissDoctor(doctorId, date) ==
  ComputeAvailability(appointments, doctorId, date)

AlwaysMissBranch(branchId, date) ==
  [i \in 1..Len(DoctorsOfBranch(branchId)) |->
     [doctor |-> DoctorsOfBranch(branchId)[i],
      availableSlots |-> AlwaysMissDoctor(DoctorsOfBranch(branchId)[i], date)]]

\* C19: every availability read that succeeds returns what the same call
\* returns with a cache that always misses (the writes never read the
\* cache, so the stores of the two systems are the same).
C19_CacheIsPureOptimization ==
  /\ last.op = "getDoctorAvailability" /\ last.result \in {"hit", "miss"}
     => last.slots = AlwaysMissDoctor(last.doctorId, last.date)
  /\ last.op = "getBranchAvailability" /\ last.result \in {"hit", "miss"}
     => last.branch = AlwaysMissBranch(last.doctorId, last.date)

\* C20: a scheduleAppointment or rescheduleAppointment into an interval that
\* overlaps a completed appointment of the doctor and date, and neither
\* overlaps nor touches any appointment of theirs that is not completed or
\* cancelled, succeeds.
C20_CompletedDoNotBlock ==
  (/\ last.op \in {"scheduleAppointment", "rescheduleAppointment"}
   /\ last.op = "rescheduleAppointment" => last.pre # NoAppointment
   /\ ~(last.date < today)
   /\ \E j \in Others(last.id, last.doctorId, last.date) :
        /\ appointments[j].status = "completed"
        /\ Overlaps(last.startTime, calculateEndTime(last.startTime),
                    appointments[j].startTime, appointments[j].endTime)
   /\ \A j \in Others(last.id, last.doctorId, last.date) :
        appointments[j].status # "completed"
        => ~Meets(last.startTime, calculateEndTime(last.startTime),
                  appointments[j].startTime, appointments[j].endTime))
  => last.result = "ok"

WriteOps == {"scheduleAppointment", "rescheduleAppointment", "cancelAppointment"}

\* C21: when a store operation fails during scheduleAppointment,
\* rescheduleAppointment or cancelAppointment, the call fails with that
\* error, the failed operation was attempted once and was the last one
\* attempted, and the store and the cache are as before the call.
C21_StorageErrorNoEffect ==
  [][(/\ last = NoCall
      /\ last'.op \in WriteOps
      /\ last'.result = "StorageError")
     => /\ appointments' = appointments
        /\ cache' = cache
        /\ last'.ops # <<>>
        /\ \A i \in 1..Len(last'.ops), j \in 1..Len(last'.ops) :
             last'.ops[i] = last'.ops[j] => i = j]_vars

\* the create of a scheduleAppointment has just failed while the pair's
\* availability was cached and the store held an appointment
C21_Witness ==
  /\ last.op = "scheduleAppointment"
  /\ last.result = "StorageError"
  /\ last.ops = <<"findOne", "create">>
  /\ cache[<<"availability", last.doctorId, last.date>>].hit
  /\ appointments # <<>>

\* C22: every successful booking (scheduleAppointment, create) triggers a
\* confirmation notification; when the appointment has been created and
\* sending fails, it stays stored with status 'scheduled' and the booking
\* reports success.
C22_NotificationNeverFailsBooking ==
  /\ (/\ last.op \in {"scheduleAppointment", "create"}
      /\ last.id # NoId)
     => /\ "sendAppointmentConfirmation" \in Elems(last.ops)
        /\ appointments[last.id].status = "scheduled"
  /\ (/\ last.op = "create"
      /\ last.id # NoId)
     => last.result = "ok"

\* C23: in every state of the whole booking surface (ScheduleService writes,
\* AppointmentController.create and update) no appointment that is not
\* cancelled overlaps another such appointment of its doctor and date.
C23_SurfaceNonOverlap ==
  \A i \in Ids(appointments) :
    NotCancelled(appointments[i])
    => \A j \in Others(i, appointments[i].doctorId, appointments[i].date) :
         ~Overlaps(appointments[i].startTime, appointments[i].endTime,
                   appointments[j].startTime, appointments[j].endTime)

\* C24: when a rescheduleAppointment that moves an appointment onto another
\* doctor or date and a scheduleAppointment, or a rescheduleAppointment of
\* another appointment, with an overlapping interval on that doctor and
\* date have both finished, at most one of them has succeeded with its
\* appointment still standing: their two appointments are not both live on
\* overlapping intervals.
C24_RescheduleRace ==
  \A p \in Procs, q \in Procs :
    (/\ p # q
     /\ calls[p].pc = "done" /\ calls[p].result = "ok"
     /\ calls[q].pc = "done" /\ calls[q].result = "ok"
     /\ calls[p].op = "rescheduleAppointment"
     /\ <<calls[p].instance.doctorId, calls[p].instance.date>>
          # <<calls[p].doctorId, calls[p].date>>
     /\ calls[q].op \in {"scheduleAppointment", "rescheduleAppointment"}
     /\ calls[p].id # calls[q].id
     /\ calls[p].doctorId = calls[q].doctorId
     /\ calls[p].date = calls[q].date
     /\ Overlaps(calls[p].startTime, calculateEndTime(calls[p].startTime),
                 calls[q].startTime, calculateEndTime(calls[q].startTime)))
    => ~(/\ NotCancelled(appointments[calls[p].id])
         /\ NotCancelled(appointments[calls[q].id])
         /\ SameCalendar(appointments[calls[p].id], appointments[calls[q].id])
         /\ Overlaps(appointments[calls[p].id].startTime,
                     appointments[calls[p].id].endTime,
                     appointments[calls[q].id].startTime,
                     appointments[calls[q].id].endTime))

\* C25: when cancelAppointment(A) and a rescheduleAppointment(A) that had
\* loaded A before it was cancelled have both succeeded, A's status is
\* 'cancelled'.
C25_NoLostCancellation ==
  \A p \in Procs, q \in Procs :
    (/\ p # q
     /\ calls[p].pc = "done" /\ calls[p].result = "ok"
     /\ calls[q].pc = "done" /\ calls[q].result = "ok"
     /\ calls[p].op = "cancelAppointment"
     /\ calls[q].op = "rescheduleAppointment"
     /\ calls[p].id = calls[q].id
     /\ calls[q].instance.status # "cancelled")
    => appointments[calls[p].id].status = "cancelled"

\* C26: when a getDoctorAvailability(D, X) that missed the cache and a
\* successful scheduleAppointment(D, X, T) have both finished and the
\* appointment stands as booked, the cache entry of (D, X) does not list T.
C26_NoStaleFill ==
  \A p \in Procs, q \in Procs :
    (/\ p # q
     /\ calls[p].pc = "done" /\ calls[p].result = "miss"
     /\ calls[p].op = "getDoctorAvailability"
     /\ calls[q].pc = "done" /\ calls[q].result = "ok"
     /\ calls[q].op = "scheduleAppointment"
     /\ calls[p].doctorId = calls[q].doctorId
     /\ calls[p].date = calls[q].date
     /\ appointments[calls[q].id].status = "scheduled"
     /\ appointments[calls[q].id].doctorId = calls[q].doctorId
     /\ appointments[calls[q].id].date = calls[q].date
     /\ appointments[calls[q].id].startTime = calls[q].startTime)
    => LET entry == cache[<<"availability", calls[q].doctorId, calls[q].date>>]
       IN entry.hit => calls[q].startTime \notin Elems(entry.value)

\* C27: every start time listed by a getDoctorAvailability that has just
\* computed its answer (a cache miss) for a date that is not in the past can
\* be booked: a scheduleAppointment for that doctor, date and start time
\* made next finds the slot available and its row passes validation.
C27_ListedSlotsBookable ==
  (/\ last.op = "getDoctorAvailability"
   /\ last.result = "miss"
   /\ ~(last.date < today))
  => \A i \in 1..Len(last.slots) :
       /\ checkAvailability(appointments, last.doctorId, last.date,
                            last.slots[i], NoId)
       /\ Validate([patientId |-> "P1", doctorId |-> last.doctorId,
                    date |-> last.date, startTime |-> last.slots[i],
                    endTime |-> calculateEndTime(last.slots[i]),
                    status |-> "scheduled",
                    cancellationReason |-> NoReason], today)

\* C28: every status that ScheduleService writes is a member of the status
\* enumeration of the Appointment model: the row a successful call has
\* just written carries a status of StatusEnum.
C28_StatusInEnum ==
  (/\ last.op \in WriteOps
   /\ last.result = "ok")
  => appointments[last.id].status \in StatusEnum

\* C29: for every start time from 00:00 to 23:59, calculateEndTime returns a
\* time of the same day (hours at most 23, minutes at most 59) that is
\* exactly APPOINTMENT_DURATION minutes after the start time and later than
\* it.
C29_EndTimeSameDay ==
  (last.op = "calculateEndTime")
  => LET endTime == last.slots[1]
     IN /\ endTime[1] \in 0..23
        /\ endTime[2] \in 0..59
        /\ Minutes(endTime)
             = Minutes(last.startTime) + settings.APPOINTMENT_DURATION
        /\ TimeLT(last.startTime, endTime)

\* C30: a ScheduleService write touches only its target: scheduleAppointment
\* changes no existing appointment; rescheduleAppointment and
\* cancelAppointment change no appointment other than the one whose id was
\* passed and never its patientId (the id is the row's place in the store);
\* cancelAppointment leaves its doctorId, date, startTime and endTime; and
\* no appointment is removed from the store.
C30_WritesTouchOnlyTarget ==
  [][(last = NoCall /\ last'.op \in WriteOps)
     => /\ Len(appointments') >= Len(appointments)
        /\ (last'.op = "scheduleAppointment")
             => \A i \in Ids(appointments) : appointments'[i] = appointments[i]
        /\ (last'.op \in {"rescheduleAppointment", "cancelAppointment"})
             => /\ Len(appointments') = Len(appointments)
                /\ \A i \in Ids(appointments) :
                     /\ (i # last'.id) => appointments'[i] = appointments[i]
                     /\ appointments'[i].patientId = appointments[i].patientId
        /\ (last'.op = "cancelAppointment")
             => \A i \in Ids(appointments) :
                  /\ appointments'[i].doctorId = appointments[i].doctorId
                  /\ appointments'[i].date = appointments[i].date
                  /\ appointments'[i].startTime = appointments[i].startTime
                  /\ appointments'[i].endTime = appointments[i].endTime]_vars

=============================================================================
